---- MODULE Spec2Model ----
(***************************************************************************)
(* Model of prism_central.py, the PrismCentral dynamic inventory script:   *)
(* the cache / fetch decision of one run of PrismCentralInventory.__init__ *)
(* (specification Spec) and the per-VM grouping of build_inventory         *)
(* (specification SpecBuild).                                              *)
(*                                                                         *)
(* Python values are modelled as follows.  A str that the code inspects    *)
(* character by character (names, category keys and values, group names)   *)
(* is a sequence of one-character strings; a dict is a function; a list is *)
(* a sequence; JSON documents returned by the API are records carrying a   *)
(* "type" field.                                                           *)
(***************************************************************************)
EXTENDS Integers, Sequences, FiniteSets, TLC

VARIABLES
    now,              \* time(): the wall clock, in ticks
    cache_file,       \* the file <cache_path>/ansible-prism_central.cache
    pc,               \* position of the running process
    args,             \* self.args and the settings read from the ini file
    data,             \* self.data
    inventory,        \* self.inventory
    cache_refreshed,  \* self.cache_refreshed
    calls,            \* API requests issued by the process so far
    reads,            \* number of times the process opened the cache for reading
    writes,           \* number of times the process opened the cache for writing
    json_data,        \* the local json_data of __init__
    stdout,           \* what the process printed on standard output
    exit_code,        \* exit status of the process, "running" while it runs
    exc,              \* the uncaught exception that ended the process, or NoException
    file_at_start,    \* cache_file as it was when the process started
    loaded,           \* self.data as load_from_cache left it
    load_call,        \* the call of load_from_prism_central made by the process, if any
    runs,             \* number of processes started so far
    dest,             \* the local dest of build_inventory
    pos,              \* number of entities build_inventory has gone through
    prev_inventory,   \* self.inventory before the latest entity was processed
    prev_dest         \* dest before the latest entity was processed

vars == <<now, cache_file, pc, args, data, inventory, cache_refreshed, calls,
          reads, writes, json_data, stdout, exit_code, exc, file_at_start,
          loaded, load_call, runs, dest, pos, prev_inventory, prev_dest>>

-----------------------------------------------------------------------------
(* Python str                                                              *)

UpperCase == <<"A", "B", "C", "D", "E", "F", "G", "H", "I", "J", "K", "L", "M",
               "N", "O", "P", "Q", "R", "S", "T", "U", "V", "W", "X", "Y", "Z">>
LowerCase == <<"a", "b", "c", "d", "e", "f", "g", "h", "i", "j", "k", "l", "m",
               "n", "o", "p", "q", "r", "s", "t", "u", "v", "w", "x", "y", "z">>
Digits == {"0", "1", "2", "3", "4", "5", "6", "7", "8", "9"}

Range(seq) == {seq[i] : i \in DOMAIN seq}

\* str.lower(), one character
lower_char(c) ==
    IF c \in Range(UpperCase)
    THEN LowerCase[CHOOSE i \in DOMAIN UpperCase : UpperCase[i] = c]
    ELSE c

\* str.lower()
lower(word) == [i \in DOMAIN word |-> lower_char(word[i])]

\* the character class [A-Za-z0-9\-.] of to_safe
SafeChars == Range(UpperCase) \cup Range(LowerCase) \cup Digits \cup {"-", "."}

\* re.sub(r"[^A-Za-z0-9\-.]", "_", word)
to_safe(word) == [i \in DOMAIN word |-> IF word[i] \in SafeChars THEN word[i] ELSE "_"]

\* the string literals of build_inventory
S_all == <<"a", "l", "l">>
S_meta == <<"_", "m", "e", "t", "a">>
S_prism_central == <<"p", "r", "i", "s", "m", "_", "c", "e", "n", "t", "r", "a", "l">>
S_cluster == <<"c", "l", "u", "s", "t", "e", "r", "_">>
S_project == <<"p", "r", "o", "j", "e", "c", "t", "_">>
S_owner == <<"o", "w", "n", "e", "r", "_">>
S_hypervisor == <<"h", "y", "p", "e", "r", "v", "i", "s", "o", "r", "_">>
S_status == <<"s", "t", "a", "t", "u", "s", "_">>
S_category == <<"c", "a", "t", "e", "g", "o", "r", "y", "_">>
S_underscore == <<"_">>

-----------------------------------------------------------------------------
(* Exceptions and small Python values                                      *)

NoException == "none"
Unbound == "<unbound>"          \* a local variable that was never assigned
EmptyDict == <<>>               \* {}
None == [type |-> "None"]

\* self.group_variables: the default of __init__
group_variables == EmptyDict

-----------------------------------------------------------------------------
(* build_inventory                                                         *)

\* self.inventory[key] = {'hosts': [], 'vars': {}}
add_inventory_group(inv, key) ==
    [k \in DOMAIN inv \cup {key} |->
        IF k = key THEN [hosts |-> <<>>, vars |-> EmptyDict] ELSE inv[k]]

\* add_host on the pair st = [inventory, exc]; an exception already raised
\* propagates, and self.inventory[group]['hosts'] raises KeyError when the
\* entry under that key has no 'hosts'
add_host(st, group, host) ==
    IF st.exc # NoException THEN st
    ELSE LET inv1 == IF group \notin DOMAIN st.inventory
                     THEN add_inventory_group(st.inventory, group)
                     ELSE st.inventory
         IN  IF "hosts" \notin DOMAIN inv1[group]
             THEN [st EXCEPT !.inventory = inv1, !.exc = "KeyError"]
             ELSE IF host \notin Range(inv1[group].hosts)
                  THEN [st EXCEPT !.inventory =
                           [inv1 EXCEPT ![group].hosts = Append(@, host)]]
                  ELSE [st EXCEPT !.inventory = inv1]

\* for group in groups: self.add_host(group, host)
RECURSIVE add_hosts(_, _, _)
add_hosts(st, groups, host) ==
    IF groups = <<>> THEN st
    ELSE add_hosts(add_host(st, Head(groups), host), Tail(groups), host)

\* the loop over vm['status']['resources']['nic_list']: dest is assigned at
\* every interface whose ip_endpoint_list is not empty, and the loop never breaks
RECURSIVE scan_nic_list(_, _)
scan_nic_list(d, nic_list) ==
    IF nic_list = <<>> THEN d
    ELSE scan_nic_list(IF Head(nic_list) # <<>> THEN Head(nic_list)[1] ELSE d,
                       Tail(nic_list))

\* the list of the "groups that are always present"
fixed_groups(vm) ==
    << S_prism_central,
       S_cluster \o lower(vm.cluster),
       S_project \o lower(vm.project),
       S_owner \o lower(vm.owner),
       S_hypervisor \o lower(vm.hypervisor_type),
       S_status \o lower(vm.power_state) >>

\* 'category_' + group.lower() + "_" + to_safe(categories[group]).lower()
category_group(key, value) ==
    S_category \o lower(key) \o S_underscore \o lower(to_safe(value))

\* the loop over vm['metadata']['categories']; an empty key is skipped.
\* The category groups are distinct keys of a dict, so the order of
\* iteration does not change the result.
RECURSIVE add_categories(_, _, _, _)
add_categories(st, categories, keys, host) ==
    IF keys = {} THEN st
    ELSE LET k == CHOOSE x \in keys : TRUE
             st1 == IF k # <<>>
                    THEN add_host(st, category_group(k, categories[k]), host)
                    ELSE st
         IN  add_categories(st1, categories, keys \ {k}, host)

\* one iteration of "for vm in self.data['vms']['entities']" on
\* st = [inventory, dest, exc]
process_vm(st, vm) ==
    LET d == scan_nic_list(st.dest, vm.nic_list)
    IN  IF st.exc # NoException THEN st
        ELSE IF d = Unbound
        THEN [st EXCEPT !.exc = "UnboundLocalError"]
        ELSE
          LET s0 == [inventory |-> [st.inventory EXCEPT ![S_all].hosts = Append(@, d)],
                     exc |-> NoException]
              s1 == add_host(s0, vm.uuid, d)
              s2 == add_host(s1, vm.name, d)
              s3 == add_hosts(s2, fixed_groups(vm), d)
              s4 == add_categories(s3, vm.categories, DOMAIN vm.categories, d)
              inv5 == IF s4.exc # NoException THEN s4.inventory
                      ELSE [s4.inventory EXCEPT ![S_meta].hostvars =
                               [k \in DOMAIN @ \cup {d} |-> IF k = d THEN vm ELSE @[k]]]
          IN  [inventory |-> inv5, dest |-> d, exc |-> s4.exc]

\* self.inventory = {'all': {...}, '_meta': {'hostvars': {}}}
initial_inventory ==
    [k \in {S_all, S_meta} |->
        IF k = S_all THEN [hosts |-> <<>>, vars |-> group_variables]
        ELSE [hostvars |-> EmptyDict]]

RECURSIVE process_vms(_, _)
process_vms(st, entities) ==
    IF entities = <<>> THEN st
    ELSE process_vms(process_vm(st, Head(entities)), Tail(entities))

\* build_inventory(self) on self.data: the result is [inventory, dest, exc].
\* self.data['vms'] raises KeyError when no vms were loaded or fetched, and
\* ['entities'] raises TypeError on the ("408", payload) result of a failed call
build_inventory(d) ==
    IF "vms" \notin DOMAIN d
    THEN [inventory |-> initial_inventory, dest |-> Unbound, exc |-> "KeyError"]
    ELSE IF d["vms"].type # "dict"
    THEN [inventory |-> initial_inventory, dest |-> Unbound, exc |-> "TypeError"]
    ELSE process_vms([inventory |-> initial_inventory, dest |-> Unbound,
                      exc |-> NoException],
                     d["vms"].entities)

-----------------------------------------------------------------------------
(* Bounds of the model                                                     *)

MaxTime == 1        \* the clock runs from 0 to MaxTime
MaxRuns == 1        \* processes started one after the other on one cache file
MaxFailures == 1    \* API calls that fail within one process
MaxVms == 2         \* entities of a VM collection given to build_inventory
MaxNics == 2        \* interfaces of a VM
MaxStamp == 3       \* latest mtime, clock reading and max-age of the cache check

-----------------------------------------------------------------------------
(* PcManager                                                               *)

Resources == {"vms", "clusters", "projects", "categories", "nodes"}
NoResource == "None"            \* load_from_prism_central(resource=None)

\* a VM entity, with the fields build_inventory reads
Vm(uuid, name, nic_list, cluster, project, categories) ==
    [uuid |-> uuid, name |-> name, nic_list |-> nic_list,
     cluster |-> cluster, project |-> project,
     owner |-> <<"a", "d", "m", "i", "n">>,
     hypervisor_type |-> <<"A", "H", "V">>,
     power_state |-> <<"O", "N">>,
     categories |-> categories]

N_u1 == <<"u", "1">>
N_u2 == <<"u", "2">>
N_web1 == <<"w", "e", "b", "1">>
N_Web_1 == <<"W", "e", "b", " ", "1">>
N_ClusterA == <<"C", "l", "u", "s", "t", "e", "r", "A">>
N_ClusterB == <<"C", "l", "u", "s", "t", "e", "r", "B">>
N_ProjA == <<"P", "r", "o", "j", "A">>
N_Env == <<"E", "n", "v">>
N_Prod == <<"P", "r", "o", "d">>
N_My_Key == <<"M", "y", " ", "K", "e", "y">>
N_My_Category == <<"M", "y", " ", "C", "a", "t", "e", "g", "o", "r", "y", "!">>

\* the VM of the scenario: one interface, one address, category Env: Prod
VmWeb1 == Vm(N_u1, N_web1, << <<"10.0.0.5">> >>, N_ClusterA, N_ProjA,
             [k \in {N_Env} |-> N_Prod])
\* what the server may answer to a list request: a 2xx answer with a JSON
\* body, a non-2xx answer with a JSON body, a non-2xx answer with a body
\* that is not JSON, a non-2xx answer without a body, no answer at all
ResponseKinds == {"ok", "http_error_json", "http_error_text",
                  "http_error_empty", "transport_error"}
\* the failures the runs of Spec are given
FailureKinds == {"http_error_json", "transport_error"}

\* the decoded JSON body of a 2xx answer to <resource>/list
list_payload(resource, kind) ==
    IF resource = "vms"
    THEN [type |-> "dict", kind |-> "vms", entities |-> <<VmWeb1>>]
    ELSE [type |-> "dict", kind |-> resource]      \* also GET vms/<uuid>

\* rest_call: the decoded body on success; on urllib2.HTTPError the pair
\* ("408", err_result) with err_result the decoded error body, None when it
\* does not decode, or the empty body itself; on any other exception ("408", None)
rest_call(resource, kind) ==
    CASE kind = "ok" -> list_payload(resource, kind)
      [] kind = "http_error_json" ->
            [type |-> "tuple", code |-> "408",
             payload |-> [type |-> "dict", message |-> "boom"]]
      [] kind = "http_error_text" ->
            [type |-> "tuple", code |-> "408", payload |-> None]
      [] kind = "http_error_empty" ->
            [type |-> "tuple", code |-> "408", payload |-> [type |-> "str", value |-> ""]]
      [] kind = "transport_error" ->
            [type |-> "tuple", code |-> "408", payload |-> None]

\* list_vms, list_clusters, list_projects, list_categories, list_nodes
list_resource(resource, kind) == rest_call(resource, kind)

-----------------------------------------------------------------------------
(* json.dumps / json.loads                                                 *)

\* a tuple is written as a JSON array, and read back as a list
json_value(v) == IF v.type = "tuple" THEN [v EXCEPT !.type = "list"] ELSE v

\* json round trip of a dict of resource collections
json_dict(d) == [k \in DOMAIN d |-> json_value(d[k])]

-----------------------------------------------------------------------------
(* Cache management                                                        *)

NoFile == [exists |-> FALSE]
EmptySnapshot == [type |-> "json", data |-> EmptyDict, inventory |-> EmptyDict]
Garbage == [type |-> "garbage"]         \* content that json.loads rejects

\* os.path.isfile(self.cache_filename)
isfile(file) == file.exists

\* a variant of is_cache_valid that still accepts the file at the very moment
\* it expires
is_cache_valid_inclusive(file, cache_max_age, t) ==
    IF isfile(file)
    THEN (file.mtime + cache_max_age) >= t
    ELSE FALSE

\* is_cache_valid at time t
is_cache_valid(file, cache_max_age, t) ==
    IF isfile(file)
    THEN (file.mtime + cache_max_age) > t
    ELSE FALSE

\* load_from_cache: [data, inventory, exc]; only IOError is caught
load_from_cache(file) ==
    IF ~file.exists
    THEN [data |-> EmptyDict, inventory |-> EmptyDict, exc |-> NoException]
    ELSE IF file.content.type # "json"
    THEN [data |-> EmptyDict, inventory |-> EmptyDict, exc |-> "ValueError"]
    ELSE [data |-> file.content.data, inventory |-> file.content.inventory,
          exc |-> NoException]

\* write_to_cache at time t: the file that results
write_to_cache(d, inv, t) ==
    [exists |-> TRUE, mtime |-> t,
     content |-> [type |-> "json", data |-> json_dict(d), inventory |-> inv]]

-----------------------------------------------------------------------------
(* One run of the script: PrismCentralInventory.__init__                   *)

Commands == {"list", "vms", "clusters", "projects", "categories", "nodes",
             "all", "host", "env"}
CacheMaxAges == {0, 1}          \* cache_max_age of the ini file; 0 is the default

ArgSets == [command : Commands, force_cache : BOOLEAN, refresh_cache : BOOLEAN,
            cache_max_age : CacheMaxAges]

NoArgs == [command |-> "list", force_cache |-> FALSE, refresh_cache |-> FALSE,
           cache_max_age |-> 0]
NoOutput == [printed |-> FALSE]
NoJson == [kind |-> "unset"]
NoCall == [called |-> FALSE]

\* a variant of force_cache_applies in which --refresh-cache wins over
\* --force-cache
force_cache_unless_refresh(a, file) == a.force_cache /\ ~a.refresh_cache /\ isfile(file)

\* line 441: --force-cache and a cache file is there
force_cache_applies(a, file) == a.force_cache /\ isfile(file)

\* a variant of always_fresh that forgets the vms
fresh_only_for_all(resource) == resource = NoResource

\* line 444: "We always get fresh vms"
always_fresh(resource) == resource = "vms" \/ resource = NoResource

\* line 446: --refresh-cache widens the request to every resource
effective_resource(a, resource) == IF a.refresh_cache THEN NoResource ELSE resource

\* the collections load_from_prism_central(resource) fetches at time t
resources_to_fetch(a, file, t, resource) ==
    IF force_cache_applies(a, file) THEN {}
    ELSE IF is_cache_valid(file, a.cache_max_age, t) /\ ~always_fresh(resource) THEN {}
    ELSE LET r == effective_resource(a, resource)
         IN  {x \in Resources : r = x \/ r = NoResource}

\* self.data after load_from_prism_central fetched the collections `fetched`,
\* the server answering the request for x with an answer of kind kinds[x]
load_from_prism_central(d, fetched, kinds) ==
    [k \in DOMAIN d \cup fetched |->
        IF k \in fetched THEN list_resource(k, kinds[k]) ELSE d[k]]

\* the answers of the server to the requests for `fetched`: up to
\* MaxFailures of them fail, and the requests that fail within one process
\* fail the same way
Answers(fetched) ==
    {[x \in fetched |-> IF x \in failing THEN fk ELSE "ok"] :
        failing \in {f \in SUBSET fetched : Cardinality(f) <= MaxFailures},
        fk \in FailureKinds}

\* the resource a command asks load_from_prism_central for
resource_of(command) ==
    CASE command = "all" -> NoResource
      [] command = "list" -> "vms"
      [] OTHER -> command

\* a variant of should_write that saves the cache in every run
always_write(refreshed) == TRUE

\* line 343: the cache is written when something was fetched
should_write(refreshed) == refreshed

\* json.dumps(json_data)
dumps(j) ==
    CASE j.kind \in {"resource", "all", "host"} -> [j EXCEPT !.value = json_dict(@)]
      [] OTHER -> j

\* the cache file a first process may find: none, one holding an empty
\* snapshot or content that is not JSON, or the one an earlier --all or
\* --list process wrote at time 0
AllOk == [x \in Resources |-> "ok"]
InitialFiles ==
    {NoFile,
     [exists |-> TRUE, mtime |-> 0, content |-> EmptySnapshot],
     [exists |-> TRUE, mtime |-> 0, content |-> Garbage],
     write_to_cache(load_from_prism_central(EmptyDict, Resources, AllOk), EmptyDict, 0),
     write_to_cache(load_from_prism_central(EmptyDict, {"vms"}, AllOk),
                    build_inventory(load_from_prism_central(EmptyDict, {"vms"}, AllOk)).inventory,
                    0)}

ProcessVars == <<args, data, inventory, cache_refreshed, calls, reads, writes,
                 json_data, stdout, exit_code, exc, file_at_start, loaded,
                 load_call, runs>>
BuildVars == <<dest, pos, prev_inventory, prev_dest>>

Init ==
    /\ now = 0
    /\ cache_file \in InitialFiles
    /\ pc = "idle"
    /\ args = NoArgs
    /\ data = EmptyDict
    /\ inventory = EmptyDict
    /\ cache_refreshed = FALSE
    /\ calls = {}
    /\ reads = 0
    /\ writes = 0
    /\ json_data = NoJson
    /\ stdout = NoOutput
    /\ exit_code = "running"
    /\ exc = NoException
    /\ file_at_start = cache_file
    /\ loaded = EmptyDict
    /\ load_call = NoCall
    /\ runs = 0
    /\ dest = Unbound
    /\ pos = 0
    /\ prev_inventory = EmptyDict
    /\ prev_dest = Unbound

\* time passes: before a process starts, and between its two readings of
\* the clock (a process that ended reads it no more)
Tick ==
    /\ pc # "done"
    /\ now < MaxTime
    /\ now' = now + 1
    /\ UNCHANGED <<cache_file, pc, ProcessVars, BuildVars>>

\* lines 261-315: a process starts with the arguments a, unless `limit`
\* processes were started already; it prints the credentials and exits under
\* --env, and otherwise loads the cache if valid
Start(limit) ==
    /\ pc = "idle"
    /\ runs < limit
    /\ \E a \in ArgSets :
        LET valid == is_cache_valid(cache_file, a.cache_max_age, now)
            c == load_from_cache(cache_file)
        IN  /\ args' = a
            /\ runs' = runs + 1
            /\ file_at_start' = cache_file
            /\ cache_refreshed' = FALSE
            /\ calls' = {}
            /\ writes' = 0
            /\ json_data' = NoJson
            /\ load_call' = NoCall
            /\ IF a.command = "env"
               THEN /\ data' = EmptyDict /\ inventory' = EmptyDict /\ loaded' = EmptyDict
                    /\ reads' = 0
                    /\ stdout' = [printed |-> TRUE, kind |-> "env"]
                    /\ exit_code' = "0" /\ exc' = NoException /\ pc' = "done"
               ELSE IF ~valid
               THEN /\ data' = EmptyDict /\ inventory' = EmptyDict /\ loaded' = EmptyDict
                    /\ reads' = 0
                    /\ stdout' = NoOutput
                    /\ exit_code' = "running" /\ exc' = NoException /\ pc' = "dispatch"
               ELSE /\ data' = c.data /\ inventory' = c.inventory /\ loaded' = c.data
                    /\ reads' = 1
                    /\ stdout' = NoOutput
                    /\ exc' = c.exc
                    /\ IF c.exc # NoException
                       THEN exit_code' = "1" /\ pc' = "done"
                       ELSE IF c.data = EmptyDict /\ a.force_cache
                       THEN exit_code' = "-1" /\ pc' = "done"
                       ELSE exit_code' = "running" /\ pc' = "dispatch"
    /\ UNCHANGED <<now, cache_file, BuildVars>>

\* the script is run: PrismCentralInventory() at the end of the file
StartRun == Start(MaxRuns)

\* lines 343-349, once json_data is picked: write the cache if anything was
\* fetched, print the document, and end
Finish(refreshed, d, inv, j) ==
    /\ IF should_write(refreshed)
       THEN /\ cache_file' = write_to_cache(d, inv, now)
            /\ writes' = writes + 1
       ELSE UNCHANGED <<cache_file, writes>>
    /\ json_data' = j
    /\ stdout' = [printed |-> TRUE, kind |-> "json", doc |-> dumps(j)]
    /\ exit_code' = "0"
    /\ exc' = NoException
    /\ pc' = "done"

\* an uncaught exception e ends the process: nothing is written or printed
Raise(e) ==
    /\ UNCHANGED <<cache_file, writes, json_data, stdout>>
    /\ exit_code' = "1"
    /\ exc' = e
    /\ pc' = "done"

\* lines 318-335 and 343-349: --vms, --clusters, --projects, --categories, --nodes, --all
DispatchResource ==
    /\ pc = "dispatch"
    /\ args.command \in Resources \cup {"all"}
    /\ LET resource == resource_of(args.command)
           fetched == resources_to_fetch(args, cache_file, now, resource)
       IN  \E kinds \in Answers(fetched) :
             LET d == load_from_prism_central(data, fetched, kinds)
             IN  /\ data' = d
                 /\ calls' = calls \cup fetched
                 /\ cache_refreshed' = (cache_refreshed \/ fetched # {})
                 /\ load_call' = [called |-> TRUE, resource |-> resource,
                                  isfile |-> isfile(cache_file),
                                  valid |-> is_cache_valid(cache_file, args.cache_max_age, now)]
                 /\ IF args.command = "all"
                    THEN Finish(cache_refreshed', d, inventory,
                                [kind |-> "all", value |-> d])
                    ELSE IF args.command \in DOMAIN d
                    THEN Finish(cache_refreshed', d, inventory,
                                [kind |-> "resource",
                                 value |-> [k \in {args.command} |-> d[k]]])
                    ELSE Raise("KeyError")
    /\ UNCHANGED <<now, args, inventory, reads, file_at_start, loaded, runs, BuildVars>>

\* lines 338-349: --list, the default
DispatchList ==
    /\ pc = "dispatch"
    /\ args.command = "list"
    /\ LET fetched == resources_to_fetch(args, cache_file, now, "vms")
       IN  \E kinds \in Answers(fetched) :
             LET d == load_from_prism_central(data, fetched, kinds)
                 b == build_inventory(d)
             IN  /\ data' = d
                 /\ calls' = calls \cup fetched
                 /\ cache_refreshed' = (cache_refreshed \/ fetched # {})
                 /\ load_call' = [called |-> TRUE, resource |-> "vms",
                                  isfile |-> isfile(cache_file),
                                  valid |-> is_cache_valid(cache_file, args.cache_max_age, now)]
                 /\ inventory' = b.inventory
                 /\ IF b.exc = NoException
                    THEN Finish(cache_refreshed', d, b.inventory,
                                [kind |-> "inventory", value |-> b.inventory])
                    ELSE Raise(b.exc)
    /\ UNCHANGED <<now, args, reads, file_at_start, loaded, runs, BuildVars>>

\* lines 336-337, 343-349 and load_vm_variables_for_host: a search, then
\* the VM by UUID
DispatchHost ==
    /\ pc = "dispatch"
    /\ args.command = "host"
    /\ \E search \in {"match", "no_match", "failed"}, kind \in {"ok", "transport_error"} :
         /\ calls' = calls \cup (IF search = "match" THEN {"search", "get_vm"} ELSE {"search"})
         /\ CASE search = "match" ->
                   Finish(cache_refreshed, data, inventory,
                          [kind |-> "host",
                           value |-> [k \in {"vm"} |-> rest_call("vm", kind)]])
              [] search = "no_match" -> kind = "ok" /\ Raise("IndexError")
              [] search = "failed" -> kind = "ok" /\ Raise("TypeError")
    /\ UNCHANGED <<now, args, data, inventory, cache_refreshed, reads,
                   file_at_start, loaded, load_call, runs, BuildVars>>

\* the process is gone, and its memory with it
Exit ==
    /\ pc = "done"
    /\ pc' = "idle"
    /\ args' = NoArgs
    /\ data' = EmptyDict
    /\ inventory' = EmptyDict
    /\ cache_refreshed' = FALSE
    /\ calls' = {}
    /\ reads' = 0
    /\ writes' = 0
    /\ json_data' = NoJson
    /\ stdout' = NoOutput
    /\ exit_code' = "running"
    /\ exc' = NoException
    /\ file_at_start' = cache_file
    /\ loaded' = EmptyDict
    /\ load_call' = NoCall
    /\ UNCHANGED <<now, cache_file, runs, BuildVars>>

Next ==
    \/ Tick
    \/ StartRun
    \/ DispatchResource
    \/ DispatchList
    \/ DispatchHost
    \/ Exit

Spec == Init /\ [][Next]_vars

-----------------------------------------------------------------------------
(* Processes one after the other on a cache file that only they write      *)

\* no cache file yet: whatever a later process finds, an earlier one wrote
InitRuns == Init /\ cache_file = NoFile

\* one process more than in Spec, so that a process finds the file its
\* predecessor left
StartNextRun == Start(MaxRuns + 1)

NextRuns ==
    \/ Tick
    \/ StartNextRun
    \/ DispatchResource
    \/ DispatchList
    \/ DispatchHost
    \/ Exit

SpecRuns == InitRuns /\ [][NextRuns]_vars

-----------------------------------------------------------------------------
(* is_cache_valid on its own: any file, any max-age, any reading of the clock *)

Stamps == 0..MaxStamp

\* the cache file: absent, or last modified at some time, maybe later than
\* the first reading of the clock
StampedFiles ==
    {NoFile} \cup {[exists |-> TRUE, mtime |-> m, content |-> EmptySnapshot] : m \in Stamps}

InitCache ==
    /\ now = 0
    /\ cache_file \in StampedFiles
    /\ pc = "idle"
    /\ args \in {[NoArgs EXCEPT !.cache_max_age = age] : age \in Stamps}
    /\ data = EmptyDict
    /\ inventory = EmptyDict
    /\ cache_refreshed = FALSE
    /\ calls = {}
    /\ reads = 0
    /\ writes = 0
    /\ json_data = NoJson
    /\ stdout = NoOutput
    /\ exit_code = "running"
    /\ exc = NoException
    /\ file_at_start = cache_file
    /\ loaded = EmptyDict
    /\ load_call = NoCall
    /\ runs = 0
    /\ dest = Unbound
    /\ pos = 0
    /\ prev_inventory = EmptyDict
    /\ prev_dest = Unbound

\* time passes, and what is_cache_valid answered is of the past
ClockCache ==
    /\ now < MaxStamp
    /\ now' = now + 1
    /\ load_call' = NoCall
    /\ UNCHANGED <<cache_file, pc, args, data, inventory, cache_refreshed, calls,
                   reads, writes, json_data, stdout, exit_code, exc,
                   file_at_start, loaded, runs, BuildVars>>

\* lines 540-547: a call of is_cache_valid, and its answer
CheckCache ==
    /\ ~load_call.called
    /\ load_call' = [called |-> TRUE, resource |-> NoResource,
                     isfile |-> isfile(cache_file),
                     valid |-> is_cache_valid(cache_file, args.cache_max_age, now)]
    /\ UNCHANGED <<now, cache_file, pc, args, data, inventory, cache_refreshed,
                   calls, reads, writes, json_data, stdout, exit_code, exc,
                   file_at_start, loaded, runs, BuildVars>>

NextCache ==
    \/ ClockCache
    \/ CheckCache

SpecCache == InitCache /\ [][NextCache]_vars

-----------------------------------------------------------------------------
(* build_inventory, one entity at a time                                   *)

\* ip_endpoint_list of an interface: the addresses assigned to it
IpLists == {<<>>, <<"10.0.0.5">>, <<"10.0.0.6", "10.0.0.7">>}

\* nic_list of a VM
NicLists == UNION {[1..n -> IpLists] : n \in 0..MaxNics}

\* metadata.categories of a VM: a dict from category name to value
CategoryKeys == {<<>>, N_Env, N_My_Key}
CategoryValues == {N_Prod, N_My_Category}
CategoryMaps == UNION {[ks -> CategoryValues] : ks \in SUBSET CategoryKeys}

\* the VM entities given to build_inventory: the scenario's VM with every
\* nic_list, VMs that differ in UUID, name, address and cluster, and VMs
\* with every categories dict
VmEntities ==
    {Vm(N_u1, N_web1, n, N_ClusterA, N_ProjA, [k \in {N_Env} |-> N_Prod]) :
        n \in NicLists}
    \cup {Vm(N_u2, nm, <<ipl>>, cl, N_ProjA, EmptyDict) :
            nm \in {N_Web_1, S_all, S_meta}, ipl \in IpLists \ {<<>>},
            cl \in {N_ClusterA, N_ClusterB}}
    \cup {Vm(N_u2, N_web1, << <<"10.0.0.5">> >>, N_ClusterA, N_ProjA, c) :
            c \in CategoryMaps}

VmCollections == UNION {[1..n -> VmEntities] : n \in 0..MaxVms}

entities == data["vms"].entities

InitBuild ==
    /\ now = 0
    /\ cache_file = NoFile
    /\ pc = "build"
    /\ args = NoArgs
    /\ \E c \in VmCollections :
          data = [k \in {"vms"} |-> [type |-> "dict", kind |-> "vms", entities |-> c]]
    /\ inventory = EmptyDict
    /\ cache_refreshed = TRUE
    /\ calls = {"vms"}
    /\ reads = 0
    /\ writes = 0
    /\ json_data = NoJson
    /\ stdout = NoOutput
    /\ exit_code = "running"
    /\ exc = NoException
    /\ file_at_start = NoFile
    /\ loaded = EmptyDict
    /\ load_call = NoCall
    /\ runs = 1
    /\ dest = Unbound
    /\ pos = 0
    /\ prev_inventory = EmptyDict
    /\ prev_dest = Unbound

BuildFrame == <<now, cache_file, args, data, cache_refreshed, calls, reads, writes,
                json_data, stdout, exit_code, file_at_start, loaded, load_call, runs>>

\* lines 482-488
BuildBegin ==
    /\ pc = "build"
    /\ inventory' = initial_inventory
    /\ pc' = "loop"
    /\ UNCHANGED <<BuildFrame, exc, dest, pos, prev_inventory, prev_dest>>

\* lines 491-525, one iteration
BuildVm ==
    /\ pc = "loop"
    /\ pos < Len(entities)
    /\ LET st == process_vm([inventory |-> inventory, dest |-> dest, exc |-> exc],
                            entities[pos + 1])
       IN  /\ inventory' = st.inventory
           /\ dest' = st.dest
           /\ exc' = st.exc
           /\ pc' = IF st.exc # NoException THEN "raised" ELSE "loop"
    /\ pos' = pos + 1
    /\ prev_inventory' = inventory
    /\ prev_dest' = dest
    /\ UNCHANGED BuildFrame

\* the loop is over
BuildEnd ==
    /\ pc = "loop"
    /\ pos = Len(entities)
    /\ pc' = "built"
    /\ UNCHANGED <<BuildFrame, inventory, exc, dest, pos, prev_inventory, prev_dest>>

NextBuild ==
    \/ BuildBegin
    \/ BuildVm
    \/ BuildEnd

SpecBuild == InitBuild /\ [][NextBuild]_vars

-----------------------------------------------------------------------------
(* Properties of a run (specification Spec)                                *)

\* the list requests the process has issued
ListCalls == calls \cap Resources

\* the list requests of the process that came back as ("408", payload)
FailedCalls == {r \in ListCalls : data[r].type = "tuple"}

\* C1: without --force-cache and --refresh-cache, load_from_prism_central(r)
\* fetches if and only if the cache is not valid or r is vms or all: a valid
\* cache suppresses every call for a single resource other than vms, and a
\* request for vms or for all always issues the list-VMs call.
C1_FetchIffStaleOrVms ==
    (load_call.called /\ ~args.force_cache /\ ~args.refresh_cache) =>
        LET r == load_call.resource
        IN  /\ (ListCalls # {}) <=> (~load_call.valid \/ r = "vms" \/ r = NoResource)
            /\ (load_call.valid /\ r \in Resources \ {"vms"}) => calls = {}
            /\ (r = "vms" \/ r = NoResource) => "vms" \in calls

\* C1, its case: the default --list found a valid cache, loaded it, and
\* still asked the server for the vms
C1_Witness ==
    /\ load_call.called /\ ~args.force_cache /\ ~args.refresh_cache
    /\ args.command = "list" /\ load_call.valid /\ reads = 1
    /\ "clusters" \in DOMAIN loaded
    /\ calls = {"vms"}

\* C2: whenever --refresh-cache is given and the rule of --force-cache with
\* an existing file does not apply, the process fetches all five collections
\* and marks the run as refreshed, for every selector and whether or not the
\* cache is valid.
C2_RefreshFetchesAll ==
    (load_call.called /\ args.refresh_cache /\ ~(args.force_cache /\ load_call.isfile)) =>
        (Resources \subseteq calls /\ cache_refreshed)

\* C3: a process given --force-cache while no cache file exists aborts: it
\* exits non-zero, prints no JSON document, issues no API call and writes no
\* cache file, in every output mode.
C3_ForceCacheWithoutFileAborts ==
    (pc = "done" /\ args.force_cache /\ ~file_at_start.exists
        /\ args.command \in Resources \cup {"all", "list"}) =>
        /\ exit_code # "0"
        /\ ~stdout.printed
        /\ calls = {}
        /\ writes = 0
        /\ cache_file = file_at_start

\* C4: a process given --force-cache while a cache file exists, valid or
\* expired, issues no list request whatever the selector, also under
\* --refresh-cache; its collections are exactly those loaded from the cache,
\* and a collection that was not loaded stays absent.
C4_ForceCacheNeverFetches ==
    (pc \in {"dispatch", "done"} /\ args.force_cache /\ file_at_start.exists) =>
        /\ ListCalls = {}
        /\ ~cache_refreshed
        /\ data = loaded
        /\ DOMAIN data = DOMAIN loaded

\* C4, its case: --force-cache together with --refresh-cache on an existing
\* file whose collections were loaded, and the document was printed from them
C4_Witness ==
    /\ pc = "done" /\ load_call.called /\ load_call.isfile
    /\ args.force_cache /\ args.refresh_cache
    /\ args.command = "clusters"
    /\ "clusters" \in DOMAIN loaded
    /\ stdout.printed

\* C5: in every run the cache file is read at most once and written at most
\* once, and it is written only if a collection was fetched in that run: a run
\* that fetched nothing leaves the content and the mtime of the file as they were.
C5_CacheWrittenOnlyAfterFetch ==
    /\ reads <= 1
    /\ writes <= 1
    /\ (writes = 1) => (ListCalls # {})
    /\ (ListCalls = {}) => (cache_file = file_at_start)

\* C5, its case: a run served from the cache alone, at a time later than
\* the mtime of the file, printed its document and wrote nothing
C5_Witness ==
    /\ pc = "done" /\ stdout.printed /\ args.command = "nodes"
    /\ reads = 1 /\ writes = 0 /\ calls = {}
    /\ cache_file.exists /\ cache_file.mtime < now

\* C6: a failed list call is a value, not a crash: the client returns the
\* code "408" paired with the decoded error payload when there is one, and
\* in every output mode the process ends normally and prints a JSON document
\* that carries the code in place of the data of the resource.
C6_FailedCallIsPrinted ==
    (pc = "done" /\ args.command \in Resources \cup {"all", "list"} /\ FailedCalls # {}) =>
        /\ \A r \in FailedCalls : data[r].code = "408"
        /\ exit_code = "0"
        /\ exc = NoException
        /\ stdout.printed
        /\ \A r \in FailedCalls :
              (args.command = r \/ args.command = "all") =>
                  stdout.doc.value[r].code = "408"

-----------------------------------------------------------------------------
(* Properties of build_inventory (specification SpecBuild)                 *)

\* the VM has an interface with an assigned address
HasAddress(vm) == \E i \in DOMAIN vm.nic_list : vm.nic_list[i] # <<>>

\* the first assigned address of the first interface that has one
FirstAddress(vm) ==
    LET i == CHOOSE j \in DOMAIN vm.nic_list :
                 /\ vm.nic_list[j] # <<>>
                 /\ \A h \in 1..(j - 1) : vm.nic_list[h] = <<>>
    IN  vm.nic_list[i][1]

\* the address build_inventory files a VM with an address under
AddressUsed(vm) == scan_nic_list(Unbound, vm.nic_list)

Count(x, seq) == Cardinality({i \in DOMAIN seq : seq[i] = x})

HasPrefix(p, g) == Len(g) >= Len(p) /\ SubSeq(g, 1, Len(p)) = p

\* the entity the loop has just gone through
LatestVm == entities[pos]

\* C7: for every VM that has an interface with an assigned address, the
\* address build_inventory chooses is the first assigned address of the first
\* interface that has one, whatever the later interfaces carry.
C7_FirstInterfaceWithAddress ==
    (pc \in {"loop", "built", "raised"} /\ pos >= 1 /\ HasAddress(LatestVm)) =>
        dest = FirstAddress(LatestVm)

\* C8: for every VM of the collection that has no assigned address on any
\* interface, build_inventory goes on and the VM adds no entry to all.hosts,
\* to _meta.hostvars or to any group, whether it is the first VM or comes
\* after VMs that have addresses.
C8_VmWithoutAddressIsSkipped ==
    (pc \in {"loop", "built", "raised"} /\ pos >= 1 /\ ~HasAddress(LatestVm)) =>
        /\ exc = NoException
        /\ inventory = prev_inventory

\* the groups C9 names for a VM
NamedGroups(vm) ==
    {vm.uuid, vm.name, S_prism_central,
     S_cluster \o lower(vm.cluster), S_project \o lower(vm.project),
     S_owner \o lower(vm.owner), S_hypervisor \o lower(vm.hypervisor_type),
     S_status \o lower(vm.power_state)}

\* C9: after build_inventory over a collection in which every VM has an
\* address, the address of each VM appears exactly once in each of the groups
\* named by its UUID, by its name, prism_central, cluster_<cluster>,
\* project_<project>, owner_<owner>, hypervisor_<type> and status_<state>
\* (lowercased), it is in all.hosts, and _meta.hostvars[address] is a VM of
\* the collection that has that address.
C9_EveryVmInItsGroupsOnce ==
    (pc \in {"built", "raised"} /\ \A i \in DOMAIN entities : HasAddress(entities[i])) =>
        /\ pc = "built"
        /\ \A i \in DOMAIN entities :
              LET vm == entities[i]
                  a == AddressUsed(vm)
              IN  /\ \A g \in NamedGroups(vm) :
                        /\ g \in DOMAIN inventory
                        /\ "hosts" \in DOMAIN inventory[g]
                        /\ Count(a, inventory[g].hosts) = 1
                  /\ a \in Range(inventory[S_all].hosts)
                  /\ a \in DOMAIN inventory[S_meta].hostvars
                  /\ \E j \in DOMAIN entities :
                        /\ inventory[S_meta].hostvars[a] = entities[j]
                        /\ AddressUsed(entities[j]) = a

\* the characters of [a-z0-9_.-]
SafeLowerChars == Range(LowerCase) \cup Digits \cup {"_", ".", "-"}

\* C10: for every VM and every category with a non-empty key, the address is
\* added to the group category_<key>_<value> in which key and value are both
\* sanitized by to_safe and lowercased, so that the name of the group has no
\* character outside [a-z0-9_.-]; a category with an empty key adds no group.
C10_CategoryGroupsAreSanitized ==
    (pc \in {"loop", "built"} /\ pos >= 1 /\ HasAddress(LatestVm)) =>
        LET c == LatestVm.categories
        IN  /\ \A k \in DOMAIN c \ {<<>>} :
                  LET g == S_category \o lower(to_safe(k)) \o S_underscore
                             \o lower(to_safe(c[k]))
                  IN  g \in DOMAIN inventory /\ dest \in Range(inventory[g].hosts)
            /\ \A g \in DOMAIN inventory :
                  HasPrefix(S_category, g) => \A i \in DOMAIN g : g[i] \in SafeLowerChars
            /\ (<<>> \in DOMAIN c) =>
                  (S_category \o S_underscore \o lower(to_safe(c[<<>>])))
                      \notin DOMAIN inventory

-----------------------------------------------------------------------------
(* Properties of the cache check and of the cache load                     *)

\* C11: is_cache_valid answers true if and only if the cache file exists and
\* mtime + cache_max_age > now: it answers false for an absent file whatever
\* the max-age, false at the boundary mtime + cache_max_age = now, and so
\* always false under the default max-age 0 for a file whose mtime is not in
\* the future.
C11_ValidIffFileIsFresh ==
    load_call.called =>
        /\ load_call.valid <=>
              (cache_file.exists /\ cache_file.mtime + args.cache_max_age > now)
        /\ ~cache_file.exists => ~load_call.valid
        /\ (cache_file.exists /\ cache_file.mtime + args.cache_max_age = now) =>
              ~load_call.valid
        /\ (cache_file.exists /\ args.cache_max_age = 0 /\ cache_file.mtime <= now) =>
              ~load_call.valid

\* C11, its case: a file checked at the very moment mtime + cache_max_age,
\* under a max-age that is not the default, was found expired
C11_Witness ==
    /\ load_call.called /\ cache_file.exists
    /\ args.cache_max_age >= 1
    /\ cache_file.mtime + args.cache_max_age = now
    /\ ~load_call.valid

\* C12: loading the cache never fails the run: when the content of the file
\* that was read is not a decodable snapshot, load_from_cache yields the
\* empty snapshot and the run goes on to its dispatch, except that under
\* --force-cache the empty data makes the run abort with a non-zero exit.
C12_LoadNeverFailsTheRun ==
    (pc \in {"dispatch", "done"} /\ reads = 1 /\ file_at_start.content.type # "json") =>
        /\ loaded = EmptyDict
        /\ IF args.force_cache
           THEN pc = "done" /\ exit_code \notin {"0", "running"}
           ELSE /\ exc # "ValueError"
                /\ pc = "dispatch" \/ load_call.called \/ args.command = "host"

\* C13: in any sequence of runs on one cache file, a run that asks for one
\* resource r other than vms and found the cache valid ends normally and
\* prints a document holding the collection of r, whatever the run that wrote
\* the cache had fetched: r is not requested from the server only if it is in
\* the data loaded from the cache.
C13_ValidCacheServesTheResource ==
    (pc = "done" /\ args.command \in Resources \ {"vms"} /\ reads = 1) =>
        /\ exit_code = "0"
        /\ exc = NoException
        /\ stdout.printed
        /\ args.command \in DOMAIN stdout.doc.value
        /\ (args.command \notin calls) => (args.command \in DOMAIN loaded)

====
